---- MODULE Spec2Model ----
(***************************************************************************)
(* Model of openedx/core/djangoapps/user_api/accounts/api.py: the account  *)
(* API of edx-platform (get_account_settings, update_account_settings,     *)
(* create_account, check_account_exists, activate_account) over the        *)
(* identity, profile, registration, preference and pending-email stores.   *)
(***************************************************************************)
EXTENDS Integers, Sequences, FiniteSets, TLC

VARIABLES
    users,          \* auth_user rows: username -> [email, is_active, is_staff]
    profiles,       \* UserProfile rows: username -> [name, language_proficiencies, old_names]
    registrations,  \* Registration rows: activation_key -> [user, spent]
    prefs,          \* account_privacy preference rows: username -> value
    pending,        \* pending email change rows: username -> new email
    clock,          \* datetime.datetime.now(UTC), advanced by each reading
    calls,          \* the number of API calls made so far
    last,           \* the last API call: its arguments and its outcome
    activations,    \* activation_key -> the number of times registration.activate() ran on it
    txns            \* the create_account calls in flight: request -> its position and its rows

vars == <<users, profiles, registrations, prefs, pending, clock, calls, last, activations, txns>>

\* The stored state of the collaborating stores, as one value.
store == [users |-> users, profiles |-> profiles, registrations |-> registrations,
          prefs |-> prefs, pending |-> pending]

(***************************************************************************)
(* Bounds of the model.                                                    *)
(***************************************************************************)
MaxCalls == 2
MaxKeys == 2

(***************************************************************************)
(* Values.  A Python value passed to the API is a unicode string, a byte   *)
(* string that does not decode, a non-string, or None.                     *)
(***************************************************************************)
None == [kind |-> "None", chars |-> <<>>]

Str(s) == [kind |-> "unicode", chars |-> s]

USERNAME_MIN_LENGTH == 2
USERNAME_MAX_LENGTH == 30
PASSWORD_MIN_LENGTH == 2
PASSWORD_MAX_LENGTH == 75
EMAIL_MIN_LENGTH == 3
EMAIL_MAX_LENGTH == 254

Fill(n) == [i \in 1..n |-> "a"]

bob == Str(<<"b", "o", "b">>)
amy == Str(<<"a", "m", "y">>)
sam == Str(<<"s", "a", "m">>)
shortName == Str(<<"b">>)
longName == Str(Fill(USERNAME_MAX_LENGTH + 1))
spacedName == Str(<<"b", " ", "b">>)
number == [kind |-> "int", chars |-> <<>>]
rawName == [kind |-> "bytes", chars |-> <<"b", "?", "b">>]
secret == Str(<<"p", "w">>)
longPassword == Str(Fill(PASSWORD_MAX_LENGTH + 1))
bobMail == Str(<<"b", "@", "x", ".", "o">>)
amyMail == Str(<<"a", "@", "x", ".", "o">>)
samMail == Str(<<"s", "@", "x", ".", "o">>)
shortMail == Str(<<"@", "x">>)
longMail == Str(Fill(EMAIL_MAX_LENGTH - 3) \o <<"@", "x", ".", "o">>)
plainMail == Str(<<"b", "x", "o">>)
newMail == Str(<<"n", "@", "x", ".", "o">>)
allUsers == Str(<<"a", "l", "l", "_", "u", "s", "e", "r", "s">>)
private == Str(<<"p", "r", "i", "v", "a", "t", "e">>)
blank == Str(<<>>)
nameAl == Str(<<"A", "l">>)
nameBo == Str(<<"B", "o">>)
nameA == Str(<<"A">>)
english == [kind |-> "list", chars |-> <<"en">>]
englishTwice == [kind |-> "list", chars |-> <<"en", "en">>]
noLanguages == [kind |-> "list", chars |-> <<>>]

(***************************************************************************)
(* Field validators.  Each returns the name of the exception it raises, or *)
(* "ok".                                                                   *)
(***************************************************************************)
UsernameChars == {"a", "b", "m", "o", "s", "y", "p", "w", "_", "-"}

\* data is a str or unicode object, and unicode(data) decodes it.
Decodes(data) == data.kind = "unicode"

_validate_unicode(data) ==
    IF data.kind \notin {"unicode", "bytes"} THEN "UnicodeError"
    ELSE IF ~Decodes(data) THEN "UnicodeError"
    ELSE "ok"

\* isinstance(data, basestring)
_validate_type(data) ==
    IF data.kind \notin {"unicode", "bytes"} THEN "AccountDataBadType" ELSE "ok"

_validate_length(data, min, max) ==
    IF Len(data.chars) < min \/ Len(data.chars) > max THEN "AccountDataBadLength" ELSE "ok"

\* student_forms.validate_username: letters, digits, underscores and hyphens.
forms_validate_username(username) ==
    IF \A i \in 1..Len(username.chars) : username.chars[i] \in UsernameChars
    THEN "ok" ELSE "ValidationError"

\* django.core.validators.validate_email: local@domain, the domain dotted.
validate_email(email) ==
    LET c == email.chars
        ats == {i \in 1..Len(c) : c[i] = "@"}
    IN  IF /\ Cardinality(ats) = 1
           /\ \A i \in 1..Len(c) : c[i] # " "
           /\ \E p \in ats : /\ p > 1
                             /\ \E q \in (p + 2)..(Len(c) - 1) : c[q] = "."
        THEN "ok" ELSE "ValidationError"

\* The first failing stage of a pipeline of checks, "ok" when none fails.
FirstError(stages) ==
    IF \A i \in 1..Len(stages) : stages[i] = "ok" THEN "ok"
    ELSE stages[CHOOSE i \in 1..Len(stages) :
                    /\ stages[i] # "ok"
                    /\ \A j \in 1..(i - 1) : stages[j] = "ok"]

_validate_username(username) ==
    LET err == FirstError(<<_validate_unicode(username),
                            _validate_type(username),
                            _validate_length(username, USERNAME_MIN_LENGTH, USERNAME_MAX_LENGTH),
                            forms_validate_username(username)>>)
    IN  IF err # "ok" THEN "AccountUsernameInvalid" ELSE "ok"

_validate_email(email) ==
    LET err == FirstError(<<_validate_unicode(email),
                            _validate_type(email),
                            _validate_length(email, EMAIL_MIN_LENGTH, EMAIL_MAX_LENGTH),
                            validate_email(email)>>)
    IN  IF err # "ok" THEN "AccountEmailInvalid" ELSE "ok"

\* _validate_password_works_with_username without the comparison.
_validate_password_works_with_any_username(password, username) == "ok"

_validate_password_works_with_username(password, username) ==
    IF password = username THEN "AccountPasswordInvalid" ELSE "ok"

_validate_password(password, username) ==
    LET err == FirstError(<<_validate_type(password),
                            _validate_length(password, PASSWORD_MIN_LENGTH, PASSWORD_MAX_LENGTH),
                            _validate_password_works_with_username(password, username)>>)
    IN  IF err # "ok" THEN "AccountPasswordInvalid" ELSE "ok"

(***************************************************************************)
(* Existence checkers, over the identity store.                            *)
(***************************************************************************)
username_exists(s, username) == username \in DOMAIN s.users

email_exists(s, email) == \E u \in DOMAIN s.users : s.users[u].email = email

_validate_username_doesnt_exist(s, username) ==
    IF username # None /\ username_exists(s, username)
    THEN "AccountUsernameAlreadyExists" ELSE "ok"

_validate_email_doesnt_exist(s, email) ==
    IF email # None /\ email_exists(s, email)
    THEN "AccountEmailAlreadyExists" ELSE "ok"

(***************************************************************************)
(* Error propagation and transactions.                                     *)
(***************************************************************************)
\* The subclasses of UserAPIRequestError this module raises.
UserAPIRequestError ==
    {"UserNotFound", "UserNotAuthorized", "AccountUpdateError", "AccountValidationError",
     "AccountUsernameInvalid", "AccountPasswordInvalid", "AccountEmailInvalid",
     "AccountUserAlreadyExists"}

\* An outcome is [s: the store when the call ends, raised: the exception or
\* "none", ret: the value returned, errors, events, ticks].
\* errors is the field-error map the exception carries, events the events
\* emitted, ticks the number of readings of the clock.
Return(s, ret) ==
    [s |-> s, raised |-> "none", ret |-> ret, errors |-> <<>>, events |-> <<>>, ticks |-> 0]

Raise(s, exc) ==
    [s |-> s, raised |-> exc, ret |-> None, errors |-> <<>>, events |-> <<>>, ticks |-> 0]

\* @intercept_errors(UserAPIInternalError, ignore_errors=[UserAPIRequestError])
intercept_errors(out) ==
    IF out.raised \in UserAPIRequestError \cup {"none"} THEN out
    ELSE [out EXCEPT !.raised = "UserAPIInternalError"]

\* transaction_atomic without the rollback.
transaction_autocommit(before, out) == out

\* @transaction.atomic: what the body wrote is rolled back when it raises.
transaction_atomic(before, out) ==
    IF out.raised # "none" THEN [out EXCEPT !.s = before] ELSE out

(***************************************************************************)
(* The stores.                                                             *)
(***************************************************************************)
\* f with key k bound to v (a row inserted or replaced).
Put(f, k, v) == (k :> v) @@ f

EmptyStore == [users |-> <<>>, profiles |-> <<>>, registrations |-> <<>>,
               prefs |-> <<>>, pending |-> <<>>]

\* User(username=username, email=email, is_active=False)
NewUser(email) == [email |-> email, is_active |-> FALSE, is_staff |-> FALSE]

\* UserProfile(user=user) with default values.
NewProfile == [name |-> blank, language_proficiencies |-> noLanguages, old_names |-> <<>>]

\* user.save() violates a uniqueness constraint of auth_user: the username
\* is unique, and so is the email (the storage layer enforces both).
IntegrityError(s, username, email) == username_exists(s, username) \/ email_exists(s, email)

Keys == 1..MaxKeys

ActivationKey(k) == [kind |-> "activation_key", key |-> k]

HttpResponseForbidden == [kind |-> "HttpResponseForbidden"]

(***************************************************************************)
(* create_account.  allow is the value of ALLOW_PUBLIC_ACCOUNT_CREATION,   *)
(* key the uuid Registration.register draws, fault the step at which the   *)
(* database fails ("none", "register" or "profile").                       *)
(***************************************************************************)
create_account_body(s, username, password, email, allow, key, fault) ==
    LET s1 == [s EXCEPT !.users = Put(@, username, NewUser(email))]
        s2 == [s1 EXCEPT !.registrations = Put(@, key, [user |-> username, spent |-> FALSE])]
        s3 == [s2 EXCEPT !.profiles = Put(@, username, NewProfile)]
    IN  IF ~allow THEN Return(s, HttpResponseForbidden)
        ELSE IF _validate_username(username) # "ok" THEN Raise(s, _validate_username(username))
        ELSE IF _validate_password(password, username) # "ok"
             THEN Raise(s, _validate_password(password, username))
        ELSE IF _validate_email(email) # "ok" THEN Raise(s, _validate_email(email))
        ELSE IF IntegrityError(s, username, email) THEN Raise(s, "AccountUserAlreadyExists")
        ELSE IF fault = "register" THEN Raise(s1, "DatabaseError")
        ELSE IF fault = "profile" THEN Raise(s2, "DatabaseError")
        ELSE Return(s3, ActivationKey(key))

create_account(s, username, password, email, allow, key, fault) ==
    intercept_errors(
        transaction_atomic(s, create_account_body(s, username, password, email, allow, key, fault)))

(***************************************************************************)
(* check_account_exists                                                    *)
(***************************************************************************)
\* check_account_exists probing the username before the email.
check_account_exists_username_first(s, username, email) ==
    LET conflicts0 == IF _validate_username_doesnt_exist(s, username) = "AccountUsernameAlreadyExists"
                      THEN <<"username">> ELSE <<>>
        conflicts1 == IF _validate_email_doesnt_exist(s, email) = "AccountEmailAlreadyExists"
                      THEN Append(conflicts0, "email") ELSE conflicts0
    IN  [s |-> s, raised |-> "none", ret |-> [kind |-> "list", items |-> conflicts1],
         errors |-> <<>>, events |-> <<>>, ticks |-> 0]

check_account_exists(s, username, email) ==
    LET conflicts0 == IF _validate_email_doesnt_exist(s, email) = "AccountEmailAlreadyExists"
                      THEN <<"email">> ELSE <<>>
        conflicts1 == IF _validate_username_doesnt_exist(s, username) = "AccountUsernameAlreadyExists"
                      THEN Append(conflicts0, "username") ELSE conflicts0
    IN  Return(s, [kind |-> "list", items |-> conflicts1])

(***************************************************************************)
(* activate_account                                                        *)
(***************************************************************************)
\* Registration_activate marking the token spent without touching the identity.
Registration_activate_token_only(s, key) ==
    [s EXCEPT !.registrations[key].spent = TRUE]

\* Registration.activate(): the bound identity becomes active, the token spent.
Registration_activate(s, key) ==
    LET u == s.registrations[key].user
    IN  [s EXCEPT !.users[u].is_active = TRUE, !.registrations[key].spent = TRUE]

\* activate_account passing over a key that matches no registration.
activate_account_unknown_ignored(s, activation_key) ==
    IF activation_key \notin DOMAIN s.registrations
    THEN [s |-> s, raised |-> "none", ret |-> None, errors |-> <<>>, events |-> <<>>, ticks |-> 0]
    ELSE [s |-> [s EXCEPT !.users[s.registrations[activation_key].user].is_active = TRUE,
                          !.registrations[activation_key].spent = TRUE],
          raised |-> "none", ret |-> None, errors |-> <<>>, events |-> <<>>, ticks |-> 0]

activate_account(s, activation_key) ==
    intercept_errors(
        IF activation_key \notin DOMAIN s.registrations THEN Raise(s, "UserNotAuthorized")
        ELSE Return(Registration_activate(s, activation_key), None))

(***************************************************************************)
(* get_account_settings.  order is the order in which the queryset         *)
(* User.objects.filter(username__in=usernames), which has no ORDER BY,     *)
(* yields its rows.                                                        *)
(***************************************************************************)
Range(q) == {q[i] : i \in 1..Len(q)}

\* settings.ACCOUNT_VISIBILITY_CONFIGURATION
ACCOUNT_VISIBILITY_CONFIGURATION ==
    [default_visibility |-> allUsers,
     shareable_fields |-> {"username", "bio"},
     public_fields |-> {"username"},
     admin_fields |-> {"username", "email", "name", "bio", "is_active"}]

\* A configuration a caller passes instead.
CallerConfiguration ==
    [default_visibility |-> private,
     shareable_fields |-> {"username", "name"},
     public_fields |-> {"username"},
     admin_fields |-> {"username", "email"}]

NoConfiguration == [default_visibility |-> None]

\* _visible_fields: the fields the account shares under the configuration.
visible_fields(s, user, configuration) ==
    LET visibility == IF user \in DOMAIN s.prefs THEN s.prefs[user]
                      ELSE configuration.default_visibility
    IN  IF user \in DOMAIN s.profiles /\ visibility = allUsers
        THEN configuration.shareable_fields
        ELSE configuration.public_fields

\* UserReadOnlySerializer(user, configuration, custom_fields).data
UserReadOnlySerializer(s, user, configuration, custom_fields) ==
    LET conf == IF configuration = NoConfiguration THEN ACCOUNT_VISIBILITY_CONFIGURATION
                ELSE configuration
    IN  [account |-> user,
         custom_fields |-> custom_fields,
         fields |-> IF custom_fields # {} THEN custom_fields
                    ELSE visible_fields(s, user, conf)]

\* admin_fields_of with the view left out of the test.
admin_fields_of_any_view(s, requesting_user, user, view) ==
    IF s.users[requesting_user].is_staff \/ requesting_user = user
    THEN ACCOUNT_VISIBILITY_CONFIGURATION.admin_fields
    ELSE {}

\* Lines 92-96: the custom fields of a row, {} standing for None.
admin_fields_of(s, requesting_user, user, view) ==
    LET has_full_access == s.users[requesting_user].is_staff \/ requesting_user = user
    IN  IF has_full_access /\ view # "shared"
        THEN ACCOUNT_VISIBILITY_CONFIGURATION.admin_fields
        ELSE {}

\* The loop of get_account_settings over the rows of the queryset.
RECURSIVE serialize_users(_, _, _, _, _)
serialize_users(s, requesting_user, rows, configuration, view) ==
    IF rows = <<>> THEN <<>>
    ELSE <<UserReadOnlySerializer(s, Head(rows), configuration,
                                  admin_fields_of(s, requesting_user, Head(rows), view))>>
             \o serialize_users(s, requesting_user, Tail(rows), configuration, view)

\* requested_users without the filter on the usernames.
requested_users_unfiltered(s, requesting_user, usernames) == DOMAIN s.users

\* The usernames the queryset matches.
requested_users(s, requesting_user, usernames) ==
    LET names == IF usernames = <<>> THEN <<requesting_user>> ELSE usernames
    IN  {u \in DOMAIN s.users : u \in Range(names)}

\* The orders in which a queryset over the rows of set S can yield them.
Orders(S) ==
    {q \in [1..Cardinality(S) -> S] : \A i, j \in 1..Cardinality(S) : i # j => q[i] # q[j]}

get_account_settings(s, requesting_user, usernames, configuration, view, order) ==
    intercept_errors(
        IF requested_users(s, requesting_user, usernames) = {} THEN Raise(s, "UserNotFound")
        ELSE Return(s, [kind |-> "list",
                        items |-> serialize_users(s, requesting_user, order, configuration, view)]))

(***************************************************************************)
(* update_account_settings.  update is a dict: a function from the field   *)
(* names it holds to their values.                                         *)
(***************************************************************************)
\* d without the keys in K (del d[k]).
Without(d, K) == [f \in DOMAIN d \ K |-> d[f]]

\* AccountUserSerializer.get_read_only_fields()
AccountUserSerializer_read_only_fields == {"username", "email", "date_joined", "is_active"}

\* AccountLegacyProfileSerializer.get_read_only_fields()
AccountLegacyProfileSerializer_read_only_fields == {"profile_image", "requires_parental_consent"}

NAME_MIN_LENGTH == 2

\* The fields of data the serializer of the profile rejects.
AccountLegacyProfileSerializer_errors(data) ==
    {f \in DOMAIN data :
        \/ f = "name" /\ Len(data[f].chars) < NAME_MIN_LENGTH
        \/ /\ f = "language_proficiencies"
           /\ \E i, j \in 1..Len(data[f].chars) : i # j /\ data[f].chars[i] = data[f].chars[j]}

\* The fields of data the serializer of the identity rejects: all its fields are read-only.
AccountUserSerializer_errors(data) == {}

\* add_serializer_errors, for both serializers
add_serializer_errors(data, field_errors) ==
    LET bad == AccountUserSerializer_errors(data) \cup AccountLegacyProfileSerializer_errors(data)
    IN  [f \in DOMAIN field_errors \cup bad |->
            IF f \in bad THEN "This value is invalid." ELSE field_errors[f]]

\* serializer.save() of both serializers: the profile fields of data are written.
serializers_save(s, user, data) ==
    LET old == s.profiles[user]
    IN  [s EXCEPT !.profiles[user] =
            [old EXCEPT !.name = IF "name" \in DOMAIN data THEN data["name"] ELSE @,
                        !.language_proficiencies =
                            IF "language_proficiencies" \in DOMAIN data
                            THEN data["language_proficiencies"] ELSE @]]

\* student_views.validate_new_email raises ValueError
validate_new_email(s, user, new_email) ==
    IF validate_email(new_email) # "ok" THEN "ValueError"
    ELSE IF new_email = s.users[user].email THEN "ValueError"
    ELSE IF email_exists(s, new_email) THEN "ValueError"
    ELSE "ok"

\* update_user_preferences raises PreferenceValidationError for a blank value.
update_user_preferences_error(value) ==
    IF value.chars = <<>> THEN "PreferenceValidationError" ELSE "ok"

\* _get_user_and_profile: UserProfile.objects.get_or_create(user=existing_user)
_get_user_and_profile(s, username) ==
    IF username \in DOMAIN s.profiles THEN s
    ELSE [s EXCEPT !.profiles = Put(@, username, NewProfile)]

\* field_errors_of with the failure of validate_new_email left out of the map.
field_errors_of_without_email(s, username, update) ==
    LET read_only_fields ==
            (DOMAIN update \ {"email"}) \cap
                (AccountUserSerializer_read_only_fields
                    \cup AccountLegacyProfileSerializer_read_only_fields)
        errors1 == [f \in read_only_fields |-> "This field is not editable via this API"]
    IN  add_serializer_errors(Without(update, read_only_fields \cup {"email"}), errors1)

\* field_errors_of stopping at the read-only fields when there are any.
field_errors_of_read_only_first(s, username, update) ==
    LET read_only_fields ==
            (DOMAIN update \ {"email"}) \cap
                (AccountUserSerializer_read_only_fields
                    \cup AccountLegacyProfileSerializer_read_only_fields)
        errors1 == [f \in read_only_fields |-> "This field is not editable via this API"]
        errors2 == add_serializer_errors(Without(update, read_only_fields \cup {"email"}), errors1)
    IN  IF read_only_fields # {} THEN errors1
        ELSE IF "email" \in DOMAIN update
                /\ validate_new_email(s, username, update["email"]) # "ok"
             THEN Put(errors2, "email", "Error thrown from validate_new_email")
        ELSE errors2

\* Lines 163-192: the field errors of the update.
field_errors_of(s, username, update) ==
    LET read_only_fields ==
            (DOMAIN update \ {"email"}) \cap
                (AccountUserSerializer_read_only_fields
                    \cup AccountLegacyProfileSerializer_read_only_fields)
        errors1 == [f \in read_only_fields |-> "This field is not editable via this API"]
        data == Without(update, read_only_fields \cup {"email"})
        errors2 == add_serializer_errors(data, errors1)
    IN  IF "email" \in DOMAIN update /\ validate_new_email(s, username, update["email"]) # "ok"
        THEN Put(errors2, "email", "Error thrown from validate_new_email")
        ELSE errors2

\* name_was_set taking an empty old name for a name.
name_was_set_or_empty(old_name) == old_name # None

\* Line 224, "if old_name:": the update holds a name and the stored name was
\* not empty.
name_was_set(old_name) == old_name # None /\ old_name.chars # <<>>

\* preference_error_store with the saved changes rolled back.
preference_error_store_rolled_back(s, s1) == s

\* The store when update_user_preferences raises, s being the store at the
\* start of the try block and s1 the store after the serializers saved: no
\* transaction spans the block, so what was saved stays.
preference_error_store(s, s1) == s1

\* Lines 194-241: the try block.  fault = "save" makes serializer.save() raise.
save_account_updates(s, requesting_user, username, update, old_name, fault, now) ==
    LET data == Without(update, AccountUserSerializer_read_only_fields
                                    \cup AccountLegacyProfileSerializer_read_only_fields)
        s1 == serializers_save(s, username, data)
        s2 == IF "account_privacy" \in DOMAIN data
              THEN [s1 EXCEPT !.prefs = Put(@, username, data["account_privacy"])] ELSE s1
        events == IF "language_proficiencies" \in DOMAIN data
                  THEN <<[user |-> username,
                          setting_name |-> "language_proficiencies",
                          old_value |-> s.profiles[username].language_proficiencies,
                          new_value |-> data["language_proficiencies"]]>>
                  ELSE <<>>
        s3 == [s2 EXCEPT !.profiles[username].old_names =
                            Append(@, <<old_name, requesting_user, now>>)]
    IN  IF fault = "save" THEN Raise(s, "AccountUpdateError")
        ELSE IF /\ "account_privacy" \in DOMAIN data
                /\ update_user_preferences_error(data["account_privacy"]) # "ok"
             THEN [Raise(preference_error_store(s, s1), "AccountValidationError") EXCEPT
                      !.errors = [f \in {"account_privacy"} |-> "PreferenceValidationError"]]
        ELSE IF name_was_set(old_name)
             THEN [Return(s3, None) EXCEPT !.events = events, !.ticks = 1]
        ELSE [Return(s2, None) EXCEPT !.events = events]

\* email_change_request without the check of ALLOW_EMAIL_ADDRESS_CHANGE.
email_change_request_flag_ignored(out, username, new_email, allow, fault) ==
    IF fault = "mail" THEN [out EXCEPT !.raised = "AccountUpdateError"]
    ELSE [out EXCEPT !.s.pending = Put(@, username, new_email)]

\* Lines 243-253: the email change request.  fault = "mail" makes
\* do_email_change_request raise ValueError.
email_change_request(out, username, new_email, allow, fault) ==
    IF ~allow THEN [out EXCEPT !.raised = "AccountUpdateError"]
    ELSE IF fault = "mail" THEN [out EXCEPT !.raised = "AccountUpdateError"]
    ELSE [out EXCEPT !.s.pending = Put(@, username, new_email)]

\* is_authorized with the check left out.
is_authorized_always(requesting_user, username) == TRUE

\* Lines 141-142: only the account's own user may update it.
is_authorized(requesting_user, username) == requesting_user = username

update_account_settings_body(s, requesting_user, update, username, allow, fault, now) ==
    IF username \notin DOMAIN s.users THEN Raise(s, "UserNotFound")
    ELSE LET s0 == _get_user_and_profile(s, username)
             old_name == IF "name" \in DOMAIN update THEN s0.profiles[username].name ELSE None
             field_errors == field_errors_of(s0, username, update)
             saved == save_account_updates(s0, requesting_user, username,
                                           Without(update, {"email"}), old_name, fault, now)
         IN  IF ~is_authorized(requesting_user, username) THEN Raise(s0, "UserNotAuthorized")
             ELSE IF DOMAIN field_errors # {}
                  THEN [Raise(s0, "AccountValidationError") EXCEPT !.errors = field_errors]
             ELSE IF saved.raised # "none" THEN saved
             ELSE IF "email" \in DOMAIN update
                  THEN email_change_request(saved, username, update["email"], allow, fault)
             ELSE saved

\* username is None when the caller gives none.
update_account_settings(s, requesting_user, update, username, allow, fault, now) ==
    intercept_errors(
        update_account_settings_body(
            s, requesting_user, update,
            IF username = None THEN requesting_user ELSE username, allow, fault, now))

(***************************************************************************)
(* The state machine.  The API is synchronous: a call runs to completion,  *)
(* and its outcome stays in last until the caller has taken it.            *)
(***************************************************************************)
NoCall == [op |-> "none"]

\* The requests that can be inside create_account at the same time.
Racers == {"r1", "r2"}

\* A request that has not called create_account.
Idle == [pc |-> "idle", username |-> None, password |-> None, email |-> None,
         key |-> 0, blocked |-> FALSE, raised |-> "none", ret |-> None]

\* Stores the program is started on: the empty one; one holding a staff
\* identity made outside this API (without a profile, as createsuperuser
\* leaves it); and stores earlier calls of the API made of that one.
SeedStore == [EmptyStore EXCEPT !.users =
                 Put(@, sam, [email |-> samMail, is_active |-> TRUE, is_staff |-> TRUE])]

RegisteredStore == create_account(SeedStore, bob, secret, bobMail, TRUE, 1, "none").s

NamedStore ==
    update_account_settings(RegisteredStore, bob, [f \in {"name"} |-> nameAl], None,
                            TRUE, "none", 0).s

InitialStores == {EmptyStore, SeedStore, RegisteredStore, NamedStore}

Init ==
    /\ \E s \in InitialStores :
          /\ users = s.users
          /\ profiles = s.profiles
          /\ registrations = s.registrations
          /\ prefs = s.prefs
          /\ pending = s.pending
    /\ clock = 0
    /\ calls = 0
    /\ last = NoCall
    /\ activations = [k \in Keys |-> 0]
    /\ txns = [r \in Racers |-> Idle]

\* What the call op(args) that ends with outcome out leaves in the stores.
Effect(op, args, out) ==
    /\ users' = out.s.users
    /\ profiles' = out.s.profiles
    /\ registrations' = out.s.registrations
    /\ prefs' = out.s.prefs
    /\ pending' = out.s.pending
    /\ clock' = clock + out.ticks
    /\ calls' = calls + 1
    /\ activations' = IF op = "activate_account" /\ out.raised = "none"
                      THEN [activations EXCEPT ![args.activation_key] = @ + 1]
                      ELSE activations

\* The call op(args) under environment env ends with outcome out.
Call(op, args, env, out) ==
    /\ Effect(op, args, out)
    /\ last' = [op |-> op, args |-> args, env |-> env, before |-> store,
                raised |-> out.raised, ret |-> out.ret,
                errors |-> out.errors, events |-> out.events]
    /\ UNCHANGED txns

\* A new call is made when none is outstanding.
Ready == last = NoCall /\ calls < MaxCalls

CreateUsernames == {bob, amy, shortName, longName, spacedName, rawName, number}

\* The passwords tried with a username: one of them is the username itself.
CreatePasswords(username) == {secret, username, longPassword, number}

CreateEmails == {bobMail, amyMail, plainMail, shortMail, longMail, number}

\* The environments of a create_account call: the flag is read by every call,
\* a key and a fault of the database are drawn only by a call that comes to
\* write.
CreateEnvs(s, username, password, email) ==
    LET free == Keys \ DOMAIN s.registrations
        writes == create_account_body(s, username, password, email, TRUE, 0, "none").raised = "none"
    IN  {[allow |-> FALSE, key |-> 0, fault |-> "none"]}
        \cup (IF writes
              THEN [allow : {TRUE}, key : free, fault : {"none", "register", "profile"}]
              ELSE {[allow |-> TRUE, key |-> 0, fault |-> "none"]})

CreateAccount ==
    /\ Ready
    /\ \E username \in CreateUsernames, email \in CreateEmails :
        \E password \in CreatePasswords(username) :
        \E env \in CreateEnvs(store, username, password, email) :
            Call("create_account",
                 [username |-> username, password |-> password, email |-> email], env,
                 create_account(store, username, password, email, env.allow, env.key, env.fault))

CheckAccountExists ==
    /\ Ready
    /\ \E username \in {None, bob, amy}, email \in {None, bobMail, amyMail} :
        Call("check_account_exists", [username |-> username, email |-> email], <<>>,
             check_account_exists(store, username, email))

ActivateAccount ==
    /\ Ready
    /\ \E activation_key \in 0..MaxKeys :
        Call("activate_account", [activation_key |-> activation_key], <<>>,
             activate_account(store, activation_key))

UsernameLists == {<<>>, <<bob>>, <<amy>>, <<sam, bob>>, <<bob, sam>>, <<amy, bob>>, <<bob, bob>>}

GetAccountSettings ==
    /\ Ready
    /\ \E requesting_user \in DOMAIN users, usernames \in UsernameLists,
          configuration \in {NoConfiguration, CallerConfiguration},
          view \in {"None", "shared"} :
        \E order \in Orders(requested_users(store, requesting_user, usernames)) :
            Call("get_account_settings",
                 [requesting_user |-> requesting_user, usernames |-> usernames,
                  configuration |-> configuration, view |-> view],
                 [order |-> order],
                 get_account_settings(store, requesting_user, usernames, configuration,
                                      view, order))

\* The values an update gives a field.
FieldValues(f) ==
    CASE f = "name" -> {nameAl, nameBo, nameA}
      [] f = "email" -> {newMail, samMail, plainMail}
      [] f = "language_proficiencies" -> {english, englishTwice}
      [] f = "account_privacy" -> {private, blank}
      [] f = "username" -> {amy}

UpdateDomains ==
    {{}, {"name"}, {"email"}, {"language_proficiencies"}, {"account_privacy"}, {"username"},
     {"name", "email"}, {"username", "name"}, {"username", "email"},
     {"username", "language_proficiencies"}, {"account_privacy", "email"},
     {"name", "language_proficiencies", "account_privacy", "email"}}

Updates ==
    UNION {{u \in [D -> UNION {FieldValues(f) : f \in D}] : \A f \in D : u[f] \in FieldValues(f)} :
           D \in UpdateDomains}

\* The updates tried on the account of somebody else.
ForeignUpdates == {u \in Updates : DOMAIN u \subseteq {"name"} /\ \A f \in DOMAIN u : u[f] = nameBo}

\* The environments of an update_account_settings call: a fault of the
\* database and the flag ALLOW_EMAIL_ADDRESS_CHANGE are drawn only by a call
\* that comes to save.
UpdateEnvs(s, requesting_user, update, username) ==
    LET target == IF username = None THEN requesting_user ELSE username
        saves == /\ target \in DOMAIN s.users
                 /\ is_authorized(requesting_user, target)
                 /\ DOMAIN field_errors_of(_get_user_and_profile(s, target), target, update) = {}
    IN  IF ~saves THEN {[allow |-> TRUE, fault |-> "none"]}
        ELSE IF "email" \in DOMAIN update
             THEN {[allow |-> TRUE, fault |-> "none"], [allow |-> FALSE, fault |-> "none"],
                   [allow |-> TRUE, fault |-> "save"], [allow |-> TRUE, fault |-> "mail"]}
        ELSE {[allow |-> TRUE, fault |-> "none"], [allow |-> TRUE, fault |-> "save"]}

UpdateAccountSettings ==
    /\ Ready
    /\ \E requesting_user \in DOMAIN users, username \in {None, bob, amy, sam} :
        \E update \in IF username = None THEN Updates ELSE ForeignUpdates :
            \E env \in UpdateEnvs(store, requesting_user, update, username) :
                Call("update_account_settings",
                     [requesting_user |-> requesting_user, update |-> update,
                      username |-> username], env,
                     update_account_settings(store, requesting_user, update, username,
                                             env.allow, env.fault, clock))

\* The caller takes the outcome of the call.
Respond ==
    /\ last # NoCall
    /\ last' = NoCall
    /\ UNCHANGED <<users, profiles, registrations, prefs, pending, clock, calls, activations, txns>>

Next ==
    \/ CreateAccount
    \/ CheckAccountExists
    \/ ActivateAccount
    \/ GetAccountSettings
    \/ UpdateAccountSettings
    \/ Respond

Spec == Init /\ [][Next]_vars

(***************************************************************************)
(* Concurrent requests.  Each request runs in its own thread and its own   *)
(* database transaction: create_account is taken statement by statement,   *)
(* the rows it writes stay invisible to the other requests until it        *)
(* commits, and the unique indexes of auth_user make an insert wait for a  *)
(* transaction in flight that holds a row with the same username or email. *)
(* The stores (users, profiles, ...) hold the committed rows.              *)
(***************************************************************************)
RaceUsernames == {bob, amy, shortName}

RaceEmails == {bobMail, amyMail}

\* Lines 306-308: the three validators, in order.
create_account_validate(username, password, email) ==
    FirstError(<<_validate_username(username), _validate_password(password, username),
                 _validate_email(email)>>)

\* The request has inserted its auth_user row and has not committed.
Holding(t) == t.pc \in {"register", "profile", "commit"}

\* unique_index_locked for an index that takes no lock.
unique_index_unlocked(t, r) == FALSE

\* Another transaction in flight holds a row with the username or the email
\* request r is inserting.
unique_index_locked(t, r) ==
    \E q \in Racers \ {r} :
        /\ Holding(t[q])
        /\ t[q].username = t[r].username \/ t[q].email = t[r].email

\* The request ends: create_account returns ret or raises.
Finished(t, raised, ret) == [t EXCEPT !.pc = "done", !.raised = raised, !.ret = ret]

\* Lines 298-308: the call enters, reads the flag and validates its arguments.
RaceBegin(r) ==
    /\ txns[r].pc = "idle"
    /\ \E username \in RaceUsernames, email \in RaceEmails, allow \in BOOLEAN :
          LET t == [Idle EXCEPT !.username = username, !.password = secret, !.email = email]
              err == create_account_validate(username, secret, email)
          IN  txns' = [txns EXCEPT ![r] =
                          IF ~allow THEN Finished(t, "none", HttpResponseForbidden)
                          ELSE IF err # "ok" THEN Finished(t, err, None)
                          ELSE [t EXCEPT !.pc = "save"]]
    /\ UNCHANGED <<users, profiles, registrations, prefs, pending, clock, calls, last, activations>>

\* Lines 311-317: user.save().  The insert waits while another transaction
\* holds a conflicting row; it raises IntegrityError, mapped to
\* AccountUserAlreadyExists and rolling the transaction back, when a committed
\* row conflicts.
RaceSaveUser(r) ==
    /\ txns[r].pc \in {"save", "blocked"}
    /\ txns[r].pc = "blocked" => ~unique_index_locked(txns, r)
    /\ txns' = [txns EXCEPT ![r] =
                    IF unique_index_locked(txns, r)
                    THEN [@ EXCEPT !.pc = "blocked", !.blocked = TRUE]
                    ELSE IF IntegrityError(store, @.username, @.email)
                         THEN Finished(@, "AccountUserAlreadyExists", None)
                    ELSE [@ EXCEPT !.pc = "register"]]
    /\ UNCHANGED <<users, profiles, registrations, prefs, pending, clock, calls, last, activations>>

\* The keys no registration has, committed or in flight.
FreeKeys == Keys \ (DOMAIN registrations \cup {txns[q].key : q \in Racers})

\* Lines 321-322: registration.register(user) draws a key and saves the row.
RaceRegister(r) ==
    /\ txns[r].pc = "register"
    /\ \E key \in FreeKeys : txns' = [txns EXCEPT ![r].pc = "profile", ![r].key = key]
    /\ UNCHANGED <<users, profiles, registrations, prefs, pending, clock, calls, last, activations>>

\* Line 325: UserProfile(user=user).save()
RaceSaveProfile(r) ==
    /\ txns[r].pc = "profile"
    /\ txns' = [txns EXCEPT ![r].pc = "commit"]
    /\ UNCHANGED <<users, profiles, registrations, prefs, pending, clock, calls, last, activations>>

\* Line 328: the function returns the key and @transaction.atomic commits
\* the three rows.
RaceCommit(r) ==
    /\ txns[r].pc = "commit"
    /\ users' = Put(users, txns[r].username, NewUser(txns[r].email))
    /\ registrations' = Put(registrations, txns[r].key,
                            [user |-> txns[r].username, spent |-> FALSE])
    /\ profiles' = Put(profiles, txns[r].username, NewProfile)
    /\ txns' = [txns EXCEPT ![r] = Finished(@, "none", ActivationKey(@.key))]
    /\ UNCHANGED <<prefs, pending, clock, calls, last, activations>>

\* The updates made while create_account calls are in flight: the profile
\* changes and email change requests of an account's own user.
RaceUpdates == {u \in Updates : DOMAIN u = {"email"} \/ u = [f \in {"name"} |-> nameBo]}

\* An update_account_settings call, which sees the committed rows.
RaceUpdateAccountSettings ==
    /\ calls < MaxCalls
    /\ \E requesting_user \in DOMAIN users, update \in RaceUpdates :
        \E env \in UpdateEnvs(store, requesting_user, update, None) :
            Effect("update_account_settings",
                   [requesting_user |-> requesting_user, update |-> update, username |-> None],
                   update_account_settings(store, requesting_user, update, None,
                                           env.allow, env.fault, clock))
    /\ UNCHANGED <<last, txns>>

\* An activate_account call, which sees the committed rows.
RaceActivateAccount ==
    /\ calls < MaxCalls
    /\ \E activation_key \in 0..MaxKeys :
        Effect("activate_account", [activation_key |-> activation_key],
               activate_account(store, activation_key))
    /\ UNCHANGED <<last, txns>>

RaceNext ==
    \/ \E r \in Racers : RaceBegin(r)
    \/ \E r \in Racers : RaceSaveUser(r)
    \/ \E r \in Racers : RaceRegister(r)
    \/ \E r \in Racers : RaceSaveProfile(r)
    \/ \E r \in Racers : RaceCommit(r)
    \/ RaceUpdateAccountSettings
    \/ RaceActivateAccount

RaceSpec == Init /\ [][RaceNext]_vars

(***************************************************************************)
(* Properties of update_account_settings.                                  *)
(***************************************************************************)
IsUpdate == last.op = "update_account_settings"

\* The account the outstanding update_account_settings call is about.
UpdateTarget ==
    IF last.args.username = None THEN last.args.requesting_user ELSE last.args.username

\* The outstanding update is made by the owner of an existing account, so it
\* comes to validation.
UpdateValidated ==
    /\ IsUpdate
    /\ UpdateTarget \in DOMAIN last.before.users
    /\ last.args.requesting_user = UpdateTarget

ReadOnlyFieldNames == {"username", "date_joined", "is_active", "profile_image",
                       "requires_parental_consent"}

\* The fields of the outstanding update that are in error: read-only, refused
\* by a serializer, or an email validate_new_email refuses.
ErrorFields ==
    LET update == last.args.update
        taken == {last.before.users[u].email : u \in DOMAIN last.before.users}
    IN  {f \in DOMAIN update :
            \/ f \in ReadOnlyFieldNames
            \/ f = "name" /\ update[f] = nameA
            \/ f = "language_proficiencies" /\ update[f] = englishTwice
            \/ f = "email" /\ (update[f] = plainMail \/ update[f] \in taken)}

\* The stores other than the profiles are as before the call.
OtherStoresUnchanged ==
    /\ users = last.before.users
    /\ registrations = last.before.registrations
    /\ prefs = last.before.prefs
    /\ pending = last.before.pending

\* Nothing was written by the outstanding call.
StoreUnchanged == OtherStoresUnchanged /\ profiles = last.before.profiles

\* The profiles are as before the call, but for the profile the lookup of
\* the target makes (with default values) when the target has none.
OnlyProfileCreated ==
    /\ \A u \in DOMAIN last.before.profiles : u \in DOMAIN profiles /\ profiles[u] = last.before.profiles[u]
    /\ \A u \in DOMAIN profiles \ DOMAIN last.before.profiles : u = UpdateTarget /\ profiles[u] = NewProfile

\* C1 as stated: a field error after validation rejects the call with
\* AccountValidationError carrying the field errors, and nothing at all is
\* persisted.
C1_NothingPersisted ==
    (UpdateValidated /\ ErrorFields # {}) =>
        /\ last.raised = "AccountValidationError"
        /\ DOMAIN last.errors = ErrorFields
        /\ last.events = <<>>
        /\ StoreUnchanged

\* C1 amended: a field error after validation rejects the call with
\* AccountValidationError carrying the field errors, and nothing of the update
\* is persisted (no identity or profile field, no preference, no event, no
\* name-history entry, no email change request); the one write is the default
\* profile the lookup creates for a target that has none.
C1_UpdateNotPersisted ==
    (UpdateValidated /\ ErrorFields # {}) =>
        /\ last.raised = "AccountValidationError"
        /\ DOMAIN last.errors = ErrorFields
        /\ last.events = <<>>
        /\ OtherStoresUnchanged
        /\ OnlyProfileCreated

\* C1 happens: an update with a valid name and an email that is taken is rejected.
C1_Witness ==
    /\ UpdateValidated
    /\ ErrorFields = {"email"}
    /\ "name" \in DOMAIN last.args.update
    /\ last.raised = "AccountValidationError"

\* C2 as stated: an update by somebody other than the target always fails
\* with UserNotAuthorized and leaves the stored state as it was.
C2_AlwaysNotAuthorized ==
    (IsUpdate /\ last.args.requesting_user # UpdateTarget) =>
        last.raised = "UserNotAuthorized" /\ StoreUnchanged

\* C2 amended: an update by somebody other than the target fails, with
\* UserNotFound when the target does not exist and with UserNotAuthorized when
\* it does; identities, registrations, preferences and pending email changes
\* are as before, and so are the profiles but for the default profile the
\* lookup creates for a target that has none.
C2_ForeignUpdateFails ==
    (IsUpdate /\ last.args.requesting_user # UpdateTarget) =>
        /\ last.raised = IF UpdateTarget \in DOMAIN last.before.users
                         THEN "UserNotAuthorized" ELSE "UserNotFound"
        /\ last.events = <<>>
        /\ OtherStoresUnchanged
        /\ OnlyProfileCreated

\* C2 happens: an update of an existing account by another user was refused.
C2_Witness ==
    /\ IsUpdate
    /\ last.args.requesting_user # UpdateTarget
    /\ UpdateTarget \in DOMAIN last.before.users
    /\ last.args.update # <<>>
    /\ last.raised = "UserNotAuthorized"

\* What the profile of the target held before the call (the defaults when
\* it had no profile yet).
ProfileBefore ==
    IF UpdateTarget \in DOMAIN last.before.profiles
    THEN last.before.profiles[UpdateTarget] ELSE NewProfile

\* C3: an update with a read-only field and another field that fails
\* validation raises one AccountValidationError whose map has an entry for
\* both, and neither field is persisted.
C3_BothErrorsReported ==
    (/\ UpdateValidated
     /\ ErrorFields \cap ReadOnlyFieldNames # {}
     /\ ErrorFields \ ReadOnlyFieldNames # {}) =>
        /\ last.raised = "AccountValidationError"
        /\ ErrorFields \subseteq DOMAIN last.errors
        /\ users = last.before.users
        /\ pending = last.before.pending
        /\ profiles[UpdateTarget].name = ProfileBefore.name
        /\ profiles[UpdateTarget].language_proficiencies = ProfileBefore.language_proficiencies

\* C3 happens: an update with a read-only field and an invalid name was rejected.
C3_Witness ==
    /\ UpdateValidated
    /\ ErrorFields = {"username", "name"}
    /\ DOMAIN last.errors = {"username", "name"}

\* The non-email changes of the outstanding update are stored: the profile
\* fields, the preference, and the name-history entry of a name that was set.
NonEmailChangesPersisted ==
    LET update == last.args.update
        t == UpdateTarget
    IN  /\ "name" \in DOMAIN update => profiles[t].name = update["name"]
        /\ "language_proficiencies" \in DOMAIN update =>
               profiles[t].language_proficiencies = update["language_proficiencies"]
        /\ "account_privacy" \in DOMAIN update =>
               t \in DOMAIN prefs /\ prefs[t] = update["account_privacy"]
        /\ ("name" \in DOMAIN update /\ ProfileBefore.name # blank) =>
               /\ Len(profiles[t].old_names) = Len(ProfileBefore.old_names) + 1
               /\ profiles[t].old_names[Len(profiles[t].old_names)][1] = ProfileBefore.name

\* The outstanding update passed validation, asks for an email change, and
\* the flag ALLOW_EMAIL_ADDRESS_CHANGE is off.
EmailChangeDisabled ==
    /\ UpdateValidated
    /\ ErrorFields = {}
    /\ "email" \in DOMAIN last.args.update
    /\ ~last.env.allow

PreferenceRejected ==
    /\ UpdateValidated
    /\ ErrorFields = {}
    /\ last.env.fault # "save"
    /\ "account_privacy" \in DOMAIN last.args.update
    /\ last.args.update["account_privacy"] = blank

NameUpdated ==
    /\ UpdateValidated
    /\ last.raised = "none"
    /\ "name" \in DOMAIN last.args.update

\* The entry a name change by the requesting user appends for the old name.
HistoryEntry == <<ProfileBefore.name, last.args.requesting_user, clock - 1>>

\* q is p with entries added at its end.
IsPrefix(p, q) == Len(p) <= Len(q) /\ \A i \in 1..Len(p) : q[i] = p[i]

\* Over every call the history of every profile only grows at its end.
HistoryAppendOnly ==
    last # NoCall =>
        \A u \in DOMAIN last.before.profiles :
            /\ u \in DOMAIN profiles
            /\ IsPrefix(last.before.profiles[u].old_names, profiles[u].old_names)

IsCreate == last.op = "create_account"

\* The outstanding create_account call made the identity, a registration
\* token bound to it and a profile bound to it, and returned the key.
AccountCreated ==
    LET u == last.args.username
    IN  /\ last.raised = "none"
        /\ last.ret.kind = "activation_key"
        /\ u \notin DOMAIN last.before.users /\ u \in DOMAIN users
        /\ users[u] = [email |-> last.args.email, is_active |-> FALSE, is_staff |-> FALSE]
        /\ last.ret.key \notin DOMAIN last.before.registrations
        /\ last.ret.key \in DOMAIN registrations
        /\ registrations[last.ret.key].user = u
        /\ u \notin DOMAIN last.before.profiles /\ u \in DOMAIN profiles
        /\ \A v \in DOMAIN last.before.users : v \in DOMAIN users /\ users[v] = last.before.users[v]
        /\ DOMAIN users = DOMAIN last.before.users \cup {u}
        /\ DOMAIN registrations = DOMAIN last.before.registrations \cup {last.ret.key}
        /\ DOMAIN profiles = DOMAIN last.before.profiles \cup {u}

\* C5: create_account is all-or-nothing: either the identity, its
\* registration token and its profile were all made and the key returned, or
\* nothing was made, whatever step failed.
C5_AllOrNothing ==
    IsCreate =>
        \/ AccountCreated
        \/ StoreUnchanged /\ last.ret.kind # "activation_key"

\* C5 happens: the save of the profile failed after the identity and the
\* registration were written.
C5_Witness ==
    /\ IsCreate
    /\ last.env.fault = "profile"
    /\ last.raised = "UserAPIInternalError"

\* C6 as stated (account creation allowed): a password equal to the username
\* always fails with AccountPasswordInvalid, whatever the inputs.
C6_AlwaysPasswordInvalid ==
    (IsCreate /\ last.env.allow /\ last.args.password = last.args.username) =>
        last.raised = "AccountPasswordInvalid"

\* C6 amended: with account creation allowed, a password equal to the
\* username fails with AccountPasswordInvalid when the username is valid,
\* whatever the email, and with AccountUsernameInvalid when it is not.
C6_PasswordInvalidForValidUsername ==
    (IsCreate /\ last.env.allow /\ last.args.password = last.args.username) =>
        last.raised = IF last.args.username \in {bob, amy}
                      THEN "AccountPasswordInvalid" ELSE "AccountUsernameInvalid"

\* C6 happens: a valid username used as password, with an invalid email.
C6_Witness ==
    /\ IsCreate
    /\ last.env.allow
    /\ last.args.password = last.args.username
    /\ last.args.email = plainMail
    /\ last.raised = "AccountPasswordInvalid"

(***************************************************************************)
(* Properties of check_account_exists and activate_account.                *)
(***************************************************************************)
IsCheck == last.op = "check_account_exists"

\* C7: check_account_exists never raises and writes nothing; it lists
\* "email" exactly when an email is given and taken, "username" exactly when
\* a username is given and taken, "email" first.
C7_ConflictsListed ==
    IsCheck =>
        LET email_taken == /\ last.args.email # None
                           /\ \E u \in DOMAIN last.before.users :
                                 last.before.users[u].email = last.args.email
            username_taken == /\ last.args.username # None
                              /\ last.args.username \in DOMAIN last.before.users
        IN  /\ last.raised = "none"
            /\ StoreUnchanged
            /\ last.ret.items = (IF email_taken THEN <<"email">> ELSE <<>>)
                                    \o (IF username_taken THEN <<"username">> ELSE <<>>)

\* C7 happens: both the username and the email are taken.
C7_Witness == IsCheck /\ last.ret.items = <<"email", "username">>

IsActivate == last.op = "activate_account"

\* C8: activate_account with a key that matches no registration fails with
\* UserNotAuthorized and changes no active flag and no registration.
C8_UnknownKeyRefused ==
    (IsActivate /\ last.args.activation_key \notin DOMAIN last.before.registrations) =>
        last.raised = "UserNotAuthorized" /\ StoreUnchanged

\* C8 happens: an unknown key was refused while an inactive account with a
\* registration existed.
C8_Witness ==
    /\ IsActivate
    /\ last.args.activation_key \notin DOMAIN last.before.registrations
    /\ \E k \in DOMAIN registrations : ~users[registrations[k].user].is_active
    /\ last.raised = "UserNotAuthorized"

\* The identities whose active flag the outstanding call changed.
ActiveFlagChanged ==
    {u \in DOMAIN last.before.users : users[u].is_active # last.before.users[u].is_active}

\* An account that has a registration token is active exactly when
\* activate_account was called with its key, and its token is spent exactly
\* then; a new account is inactive and its token unspent; only an
\* activate_account call with the key of an account changes its active flag.
ActivatedByItsKey ==
    /\ \A k \in DOMAIN registrations :
          /\ users[registrations[k].user].is_active = (activations[k] > 0)
          /\ registrations[k].spent = (activations[k] > 0)
    /\ (IsCreate /\ last.ret.kind = "activation_key") =>
          /\ ~users[last.args.username].is_active
          /\ ~registrations[last.ret.key].spent
    /\ (last # NoCall /\ ActiveFlagChanged # {}) =>
          /\ IsActivate
          /\ last.raised = "none"
          /\ ActiveFlagChanged = {last.before.registrations[last.args.activation_key].user}

\* The outstanding call is activate_account with a key that is already spent.
SpentKeyPresented ==
    /\ IsActivate
    /\ last.args.activation_key \in DOMAIN last.before.registrations
    /\ last.before.registrations[last.args.activation_key].spent

\* C11 as stated: an account is inactive from its creation until
\* activate_account is called with its key, that call makes the account active
\* and the token spent, and no token is consumed more than once: a call with
\* a spent key does not run the activation again.
C11_ConsumedExactlyOnce ==
    /\ ActivatedByItsKey
    /\ \A k \in DOMAIN registrations : activations[k] <= 1

\* C11 amended: an account is inactive from its creation until
\* activate_account is called with its key, and that call makes the account
\* active and the token spent; a later call with the same, spent key is not
\* refused: it returns normally and runs the activation again, which leaves
\* the account active, the token spent and everything else as it was.
C11_SpentKeyActivatesAgain ==
    /\ ActivatedByItsKey
    /\ SpentKeyPresented =>
          /\ last.raised = "none"
          /\ last.ret = None
          /\ StoreUnchanged
          /\ activations[last.args.activation_key] > 1

\* C11 happens: a key that was spent was presented again and accepted.
C11_Witness ==
    /\ SpentKeyPresented
    /\ last.raised = "none"
    /\ users[registrations[last.args.activation_key].user].is_active
    /\ activations[last.args.activation_key] > 1

(***************************************************************************)
(* Properties of get_account_settings.                                     *)
(***************************************************************************)
IsGet == last.op = "get_account_settings"

AdminFieldSet == {"username", "email", "name", "bio", "is_active"}

\* The fields the configuration of the outstanding call marks shared.
SharedFieldSet ==
    IF last.args.configuration = NoConfiguration THEN {"username", "bio"}
    ELSE {"username", "name"}

\* C9: a viewer who is neither staff nor the target is given only fields
\* marked shared and not the admin fields; the admin fields are given exactly
\* when (the viewer is staff or the target) and the view is not "shared".
C9_AdminFieldsOnlyWithFullAccess ==
    (IsGet /\ last.raised = "none") =>
        \A i \in 1..Len(last.ret.items) :
            LET v == last.ret.items[i]
                viewer == last.args.requesting_user
                staff == last.before.users[viewer].is_staff
            IN  /\ (v.custom_fields # {} /\ v.fields = AdminFieldSet)
                       <=> ((staff \/ viewer = v.account) /\ last.args.view # "shared")
                /\ (~staff /\ viewer # v.account) =>
                       v.fields \subseteq SharedFieldSet /\ v.fields # AdminFieldSet

\* C9 happens: a viewer who is not staff was given the view of another account.
C9_Witness ==
    /\ IsGet
    /\ last.raised = "none"
    /\ ~last.before.users[last.args.requesting_user].is_staff
    /\ \E i \in 1..Len(last.ret.items) : last.ret.items[i].account # last.args.requesting_user

\* The usernames the outstanding get_account_settings call asks for.
AskedUsernames ==
    IF last.args.usernames = <<>> THEN <<last.args.requesting_user>> ELSE last.args.usernames

\* C10 as stated: one view per input username, the i-th view being the
\* account of the i-th username, and UserNotFound when no username resolves.
C10_OneViewPerUsernameInOrder ==
    IsGet =>
        IF \A i \in 1..Len(AskedUsernames) : AskedUsernames[i] \notin DOMAIN last.before.users
        THEN last.raised = "UserNotFound"
        ELSE /\ last.raised = "none"
             /\ Len(last.ret.items) = Len(AskedUsernames)
             /\ \A i \in 1..Len(AskedUsernames) : last.ret.items[i].account = AskedUsernames[i]

\* C10 amended: one view for each existing account whose username is asked
\* for (a username that resolves to no account gives no view, a repeated one
\* gives one), in the order the store yields the rows, and UserNotFound when
\* no username resolves.
C10_OneViewPerResolvedAccount ==
    IsGet =>
        LET resolved == {u \in DOMAIN last.before.users :
                            \E i \in 1..Len(AskedUsernames) : AskedUsernames[i] = u}
        IN  IF resolved = {} THEN last.raised = "UserNotFound"
            ELSE /\ last.raised = "none"
                 /\ Len(last.ret.items) = Cardinality(resolved)
                 /\ {last.ret.items[i].account : i \in 1..Len(last.ret.items)} = resolved

\* C10 happens: two accounts were asked for and two views returned.
C10_Witness ==
    /\ IsGet
    /\ last.raised = "none"
    /\ Len(AskedUsernames) = 2
    /\ Len(last.ret.items) = 2

(***************************************************************************)
(* Properties of concurrent create_account calls.                          *)
(***************************************************************************)
\* The requests that created an account.
Created == {r \in Racers : txns[r].pc = "done" /\ txns[r].ret.kind = "activation_key"}

\* The requests that came to user.save() and have ended.
Saved ==
    {r \in Racers : /\ txns[r].pc = "done"
                    /\ txns[r].ret # HttpResponseForbidden
                    /\ txns[r].raised \notin {"AccountUsernameInvalid", "AccountPasswordInvalid",
                                              "AccountEmailInvalid"}}

\* Requests r and q ask for the same username or the same email.
Conflicting(r, q) ==
    txns[r].username = txns[q].username \/ txns[r].email = txns[q].email

\* No two rows of auth_user, committed or in flight, share a username or an
\* email, and every account a request created is stored as it was asked for.
AccountsUnique ==
    /\ \A u, v \in DOMAIN users : u # v => users[u].email # users[v].email
    /\ \A r \in Racers : Holding(txns[r]) =>
          /\ ~username_exists(store, txns[r].username)
          /\ ~email_exists(store, txns[r].email)
          /\ \A q \in Racers \ {r} : Holding(txns[q]) => ~Conflicting(r, q)
    /\ \A r \in Created :
          /\ username_exists(store, txns[r].username)
          /\ users[txns[r].username].email = txns[r].email
          /\ txns[r].key \in DOMAIN registrations
          /\ registrations[txns[r].key].user = txns[r].username

\* C14: in every state reached by interleaved create_account,
\* update_account_settings and activate_account calls no two accounts share a
\* username or an email; of two create_account calls for the same username or
\* email at most one creates the account, and a call that came to save and
\* did not create the account failed with AccountUserAlreadyExists.
C14_UniqueUnderRaces ==
    /\ AccountsUnique
    /\ \A r \in Saved : r \notin Created => txns[r].raised = "AccountUserAlreadyExists"
    /\ \A r, q \in Racers :
          (r # q /\ Conflicting(r, q)) => ~(r \in Created /\ q \in Created)

\* C14 happens: a request waited for the row another request held, and
\* failed with AccountUserAlreadyExists once that request had created the
\* account.
C14_Witness ==
    \E r, q \in Racers :
        /\ r # q
        /\ q \in Created
        /\ txns[r].pc = "done"
        /\ txns[r].blocked
        /\ txns[r].username # txns[q].username
        /\ txns[r].email = txns[q].email
        /\ txns[r].raised = "AccountUserAlreadyExists"

====
